---- MODULE Spec2Model ----
(***************************************************************************)
(* Model of src/fadis_press_vulkano_incomplete/src/main.rs: the bootstrap  *)
(* of a Vulkan program.  main() creates an instance, creates a window      *)
(* surface, selects the first suitable physical device, and creates a      *)
(* logical device with a graphics queue and a present queue.               *)
(*                                                                         *)
(* The answers of the Vulkan driver and of the windowing library (whether  *)
(* a creation call succeeds, what a device reports) are inputs: they are   *)
(* drawn with \E at the step that asks for them.  A device is a record     *)
(*   [ext      : does it support khr_swapchain,                            *)
(*    caps     : [status, formats, modes], the surface capability query,   *)
(*    families : sequence of [graphics, present]]                          *)
(* where present is "yes", "no" or "err" (surface.is_supported failed).    *)
(* Family i of the source (0-based) is families[i + 1].                    *)
(*                                                                         *)
(* The selector and the builder each call surface.is_supported on the      *)
(* families they scan.  The two calls are separate questions to the        *)
(* driver: the builder's answers are drawn afresh and need not repeat the  *)
(* selector's.  The family list and the graphics flags are properties of   *)
(* the physical device and stay as they are.                               *)
(***************************************************************************)
EXTENDS Integers, Sequences, FiniteSets

\* ------------------------------------------------------------------ bounds
MaxDevices == 3
MaxFamilies == 2
MaxFormats == 1
MaxModes == 1
\* usize is 64 bits wide on the usual targets; the model keeps UsizeBits bits,
\* enough for every family index to fit and for -1 to wrap far out of range.
UsizeBits == 8

\* -------------------------------------------------------- panic messages
MsgInstance == "failed to create Vulkan instance"
MsgSurface == "failed to create window surface"
MsgCapabilities == "failed to get surface capabilities"
MsgIsSupported == "called Result::unwrap() on an Err value"
MsgNoDevice == "failed to get suitable device"
MsgNthNone == "called Option::unwrap() on a None value"
MsgLogicalDevice == "failed to create logical device"

\* ------------------------------------------------------------ input sets
QueueFamilySet == [graphics : BOOLEAN, present : {"yes", "no", "err"}]

CapsErr == [status |-> "err", formats |-> 0, modes |-> 0]

\* A format list and a present mode list are modelled by their lengths.
CapabilitiesSet ==
  {CapsErr} \cup [status : {"ok"}, formats : 0..MaxFormats, modes : 0..MaxModes]

FamilyLists == UNION {[1..n -> QueueFamilySet] : n \in 0..MaxFamilies}

DeviceSet == [ext : BOOLEAN, caps : CapabilitiesSet, families : FamilyLists]

\* No closure call is under way: d is not bound.
NoDevice ==
  [ext |-> FALSE, caps |-> [status |-> "none", formats |-> 0, modes |-> 0],
   families |-> <<>>]

NoQueue == [family |-> -1, id |-> -1]

\* ------------------------------------------------------ state of main()
VARIABLES
  pc,                \* position in main()
  error,             \* panic message, "" while none
  numDevices,        \* length of PhysicalDevice::enumerate(&instance)
  devIdx,            \* number of devices the find closure has been called on
  cur,               \* the device of the latest closure call (*d), until find
                     \* drops it
  capsQueried,       \* number of surface.capabilities(..) calls made
  famQueried,        \* surface.is_supported(..) calls of the latest closure call
  supports_graphics, \* closure local
  present_family,    \* closure local
  physical_device,   \* 1-based position of the selected device, 0 = none
  builder_families,  \* the selected device's families with the answers that
                     \* surface.is_supported gives the builder, <<>> before
  graphics_index,    \* i32
  present_index,     \* i32
  requested,         \* family indices handed to Device::new, in request order
  queues,            \* the queues iterator returned by Device::new
  graphics_queue,
  present_queue

vars == <<pc, error, numDevices, devIdx, cur, capsQueried, famQueried,
          supports_graphics, present_family, physical_device,
          builder_families, graphics_index, present_index, requested, queues, graphics_queue, present_queue>>

selVars == <<devIdx, cur, capsQueried, famQueried, supports_graphics,
             present_family, physical_device>>

bldVars == <<builder_families, graphics_index, present_index, requested,
             queues, graphics_queue, present_queue>>

\* -------------------------------------------------- the selector closure
\* lines 53-55
is_swapchain_supported(d) == d.ext

\* A variant of is_swapchain_adequate that asks for a second present mode.
is_swapchain_adequate_TwoModes(caps) == caps.formats # 0 /\ caps.modes >= 2

\* lines 63-64
is_swapchain_adequate(caps) == caps.formats # 0 /\ caps.modes >= 1

\* A variant of SelectorScan that leaves the loop as soon as either flag is set.
RECURSIVE SelectorScan_BreakEither(_, _, _, _)
SelectorScan_BreakEither(fams, i, sg, pf) ==
  IF i > Len(fams)
  THEN [panic |-> FALSE, supports_graphics |-> sg, present_family |-> pf,
        queried |-> i - 1]
  ELSE LET sg2 == sg \/ fams[i].graphics IN
       IF fams[i].present = "err"
       THEN [panic |-> TRUE, supports_graphics |-> sg2, present_family |-> pf,
             queried |-> i]
       ELSE LET pf2 == pf \/ fams[i].present = "yes" IN
            IF sg2 \/ pf2
            THEN [panic |-> FALSE, supports_graphics |-> sg2,
                  present_family |-> pf2, queried |-> i]
            ELSE SelectorScan_BreakEither(fams, i + 1, sg2, pf2)

\* lines 70-82: the loop over d.queue_families(), from family i (1-based) on.
RECURSIVE SelectorScan(_, _, _, _)
SelectorScan(fams, i, sg, pf) ==
  IF i > Len(fams)
  THEN [panic |-> FALSE, supports_graphics |-> sg, present_family |-> pf,
        queried |-> i - 1]
  ELSE LET sg2 == sg \/ fams[i].graphics IN
       IF fams[i].present = "err"
       THEN [panic |-> TRUE, supports_graphics |-> sg2, present_family |-> pf,
             queried |-> i]
       ELSE LET pf2 == pf \/ fams[i].present = "yes" IN
            IF sg2 /\ pf2
            THEN [panic |-> FALSE, supports_graphics |-> sg2,
                  present_family |-> pf2, queried |-> i]
            ELSE SelectorScan(fams, i + 1, sg2, pf2)

\* A variant of ClosureVerdict that leaves the adequacy check out.
ClosureVerdict_NoAdequate(d, scan) ==
  /\ is_swapchain_supported(d)
  /\ scan.supports_graphics
  /\ scan.present_family

\* line 84
ClosureVerdict(d, scan) ==
  /\ is_swapchain_supported(d)
  /\ is_swapchain_adequate(d.caps)
  /\ scan.supports_graphics
  /\ scan.present_family

\* A variant of Closure that returns false at once when the extension is
\* missing, before any query on the surface.
Closure_ExtensionFirst(d) ==
  LET scan == SelectorScan(d.families, 1, FALSE, FALSE) IN
  IF ~is_swapchain_supported(d)
  THEN [outcome |-> "false", capsCalls |-> 0, queried |-> 0,
        supports_graphics |-> FALSE, present_family |-> FALSE]
  ELSE IF d.caps.status = "err"
  THEN [outcome |-> "panic_capabilities", capsCalls |-> 1, queried |-> 0,
        supports_graphics |-> FALSE, present_family |-> FALSE]
  ELSE [outcome |-> IF scan.panic THEN "panic_is_supported"
                    ELSE IF ClosureVerdict(d, scan) THEN "true" ELSE "false",
        capsCalls |-> 1, queried |-> scan.queried,
        supports_graphics |-> scan.supports_graphics,
        present_family |-> scan.present_family]

\* lines 51-85: one call of the find closure on device d.  capsCalls counts the
\* surface.capabilities(*d) calls it makes, queried the surface.is_supported
\* calls; outcome is the closure's return value, or the panic that ends it.
Closure(d) ==
  LET scan == SelectorScan(d.families, 1, FALSE, FALSE) IN
  IF d.caps.status = "err"
  THEN [outcome |-> "panic_capabilities", capsCalls |-> 1, queried |-> 0,
        supports_graphics |-> FALSE, present_family |-> FALSE]
  ELSE [outcome |-> IF scan.panic THEN "panic_is_supported"
                    ELSE IF ClosureVerdict(d, scan) THEN "true" ELSE "false",
        capsCalls |-> 1, queried |-> scan.queried,
        supports_graphics |-> scan.supports_graphics,
        present_family |-> scan.present_family]

\* --------------------------------------------------------- the builder
\* A variant of BuilderScan that keeps the first index found for each role.
RECURSIVE BuilderScan_KeepFirst(_, _, _, _)
BuilderScan_KeepFirst(fams, i, gi, pi) ==
  IF i >= Len(fams)
  THEN [panic |-> FALSE, graphics_index |-> gi, present_index |-> pi]
  ELSE LET gi2 == IF fams[i + 1].graphics /\ gi < 0 THEN i ELSE gi IN
       IF fams[i + 1].present = "err"
       THEN [panic |-> TRUE, graphics_index |-> gi2, present_index |-> pi]
       ELSE LET pi2 == IF fams[i + 1].present = "yes" /\ pi < 0 THEN i ELSE pi IN
            IF gi2 >= 0 /\ pi2 >= 0
            THEN [panic |-> FALSE, graphics_index |-> gi2, present_index |-> pi2]
            ELSE BuilderScan_KeepFirst(fams, i + 1, gi2, pi2)

\* lines 95-107: the loop over physical_device.queue_families().enumerate(),
\* from family i (0-based) on.
RECURSIVE BuilderScan(_, _, _, _)
BuilderScan(fams, i, gi, pi) ==
  IF i >= Len(fams)
  THEN [panic |-> FALSE, graphics_index |-> gi, present_index |-> pi]
  ELSE LET gi2 == IF fams[i + 1].graphics THEN i ELSE gi IN
       IF fams[i + 1].present = "err"
       THEN [panic |-> TRUE, graphics_index |-> gi2, present_index |-> pi]
       ELSE LET pi2 == IF fams[i + 1].present = "yes" THEN i ELSE pi IN
            IF gi2 >= 0 /\ pi2 >= 0
            THEN [panic |-> FALSE, graphics_index |-> gi2, present_index |-> pi2]
            ELSE BuilderScan(fams, i + 1, gi2, pi2)

\* line 113: *i as usize
AsUsize(i) == i % (2 ^ UsizeBits)

\* lines 111-114: collect into a HashSet<usize>
queue_families_indices(gi, pi) == {AsUsize(gi), AsUsize(pi)}

\* line 115: into_iter() of a HashSet yields its elements once each, in an
\* order that the hasher's random state decides.
IterationOrders(S) ==
  {s \in [1..Cardinality(S) -> S] :
     \A i, j \in 1..Cardinality(S) : i # j => s[i] # s[j]}

\* A variant of queue_families that keeps both indices in a Vec, in order.
queue_families_Vec(gi, pi) == {<<AsUsize(gi), AsUsize(pi)>>}

\* lines 115-120: the (family, priority) iterator handed to Device::new, as the
\* set of orders in which it can yield the family indices.
queue_families(gi, pi) == IterationOrders(queue_families_indices(gi, pi))

\* line 117: physical_device.queue_families().nth(i) is Some
NthIsSome(fams, u) == u < Len(fams)

\* lines 122-127: Device::new hands back one queue per requested family, in
\* request order; the k-th request of one family gets that family's queue k.
OutputQueues(req) ==
  [k \in 1..Len(req) |->
     [family |-> req[k],
      id |-> Cardinality({j \in 1..(k - 1) : req[j] = req[k]})]]

\* ------------------------------------------------------------------ Init
Init ==
  /\ pc = "instance"
  /\ error = ""
  /\ numDevices = 0
  /\ devIdx = 0
  /\ cur = NoDevice
  /\ capsQueried = 0
  /\ famQueried = 0
  /\ supports_graphics = FALSE
  /\ present_family = FALSE
  /\ physical_device = 0
  /\ builder_families = <<>>
  /\ graphics_index = -1
  /\ present_index = -1
  /\ requested = <<>>
  /\ queues = <<>>
  /\ graphics_queue = NoQueue
  /\ present_queue = NoQueue

\* --------------------------------------------------------------- actions
\* lines 21-32: Instance::new, then the loop that prints every device.
CreateInstance ==
  /\ pc = "instance"
  /\ \E ok \in BOOLEAN, n \in 0..MaxDevices :
       IF ok
       THEN /\ pc' = "surface"
            /\ numDevices' = n
            /\ error' = error
       ELSE /\ pc' = "aborted"
            /\ error' = MsgInstance
            /\ numDevices' = numDevices
  /\ UNCHANGED <<selVars, bldVars>>

\* A variant of CreateSurface that notes the failure and carries on.
CreateSurface_CarryOn ==
  /\ pc = "surface"
  /\ \E ok \in BOOLEAN :
       IF ok
       THEN pc' = "select" /\ error' = error
       ELSE pc' = "select" /\ error' = MsgSurface
  /\ UNCHANGED <<numDevices, selVars, bldVars>>

\* lines 35-40
CreateSurface ==
  /\ pc = "surface"
  /\ \E ok \in BOOLEAN :
       IF ok
       THEN pc' = "select" /\ error' = error
       ELSE pc' = "aborted" /\ error' = MsgSurface
  /\ UNCHANGED <<numDevices, selVars, bldVars>>

\* lines 50-86: find calls the closure on the next enumerated device; a
\* true verdict ends the search and expect(..) unwraps the device.
FindNext ==
  /\ pc = "select"
  /\ devIdx < numDevices
  /\ \E d \in DeviceSet :
       LET r == Closure(d) IN
       /\ devIdx' = devIdx + 1
       /\ cur' = d
       /\ capsQueried' = capsQueried + r.capsCalls
       /\ famQueried' = r.queried
       /\ supports_graphics' = r.supports_graphics
       /\ present_family' = r.present_family
       /\ pc' = CASE r.outcome = "true" -> "scan"
                  [] r.outcome = "false" -> "rejected"
                  [] OTHER -> "aborted"
       /\ error' = CASE r.outcome = "panic_capabilities" -> MsgCapabilities
                     [] r.outcome = "panic_is_supported" -> MsgIsSupported
                     [] OTHER -> error
       /\ physical_device' = IF r.outcome = "true" THEN devIdx + 1
                             ELSE physical_device
  /\ UNCHANGED <<numDevices, bldVars>>

\* lines 51, 85: the closure returned false; find drops the device and the
\* closure's locals and goes back to the iterator.
FindSkip ==
  /\ pc = "rejected"
  /\ pc' = "select"
  /\ cur' = NoDevice
  /\ famQueried' = 0
  /\ supports_graphics' = FALSE
  /\ present_family' = FALSE
  /\ UNCHANGED <<error, numDevices, devIdx, capsQueried, physical_device, bldVars>>

\* line 86: find returned None
FindNone ==
  /\ pc = "select"
  /\ devIdx >= numDevices
  /\ pc' = "aborted"
  /\ error' = MsgNoDevice
  /\ UNCHANGED <<numDevices, selVars, bldVars>>

\* lines 97, 101: the families of the selected device as the builder's scan
\* meets them: supports_graphics() as before, surface.is_supported(..) as the
\* driver answers this time.
Requeried(fams, answers) ==
  [i \in 1..Len(fams) |-> [graphics |-> fams[i].graphics, present |-> answers[i]]]

\* lines 95-107
ScanQueueFamilies ==
  /\ pc = "scan"
  /\ \E answers \in [1..Len(cur.families) -> {"yes", "no", "err"}] :
       LET fams == Requeried(cur.families, answers)
           r == BuilderScan(fams, 0, -1, -1)
       IN
       /\ builder_families' = fams
       /\ graphics_index' = r.graphics_index
       /\ present_index' = r.present_index
       /\ IF r.panic
          THEN pc' = "aborted" /\ error' = MsgIsSupported
          ELSE pc' = "create" /\ error' = error
  /\ UNCHANGED <<numDevices, selVars, requested, queues, graphics_queue,
                 present_queue>>

\* lines 115-120: the iterator is lazy.  Device::new pulls its items one by
\* one, so the items before the first index that names no family have been
\* handed over when the unwrap of line 117 panics.
HandedOver(fams, order) ==
  LET bad == {k \in 1..Len(order) : ~NthIsSome(fams, order[k])} IN
  IF bad = {} THEN order
  ELSE SubSeq(order, 1, (CHOOSE k \in bad : \A j \in bad : k <= j) - 1)

\* lines 109-128
CreateDevice ==
  /\ pc = "create"
  /\ \E order \in queue_families(graphics_index, present_index),
        ok \in BOOLEAN :
       IF \E k \in 1..Len(order) : ~NthIsSome(cur.families, order[k])
       THEN /\ pc' = "aborted"
            /\ error' = MsgNthNone
            /\ requested' = HandedOver(cur.families, order)
            /\ UNCHANGED queues
       ELSE /\ requested' = order
            /\ IF ok
               THEN /\ pc' = "queues"
                    /\ queues' = OutputQueues(order)
                    /\ error' = error
               ELSE /\ pc' = "aborted"
                    /\ error' = MsgLogicalDevice
                    /\ UNCHANGED queues
  /\ UNCHANGED <<numDevices, selVars, builder_families, graphics_index,
                 present_index, graphics_queue, present_queue>>

\* A variant of TakeQueues that goes on to run the event loop, which never
\* returns.
TakeQueues_RunEventLoop ==
  /\ pc = "queues"
  /\ Len(queues) > 0
  /\ pc' = "queues"
  /\ error' = error
  /\ graphics_queue' = queues[1]
  /\ present_queue' = IF Len(queues) >= 2 THEN queues[2] ELSE queues[1]
  /\ queues' = queues
  /\ UNCHANGED <<numDevices, selVars, builder_families, graphics_index,
                 present_index, requested>>

\* lines 129-131, then main returns
TakeQueues ==
  /\ pc = "queues"
  /\ IF Len(queues) = 0
     THEN /\ pc' = "aborted"
          /\ error' = MsgNthNone
          /\ UNCHANGED <<graphics_queue, present_queue, queues>>
     ELSE /\ pc' = "done"
          /\ error' = error
          /\ graphics_queue' = queues[1]
          /\ present_queue' = IF Len(queues) >= 2 THEN queues[2] ELSE queues[1]
          /\ queues' = IF Len(queues) >= 2 THEN SubSeq(queues, 3, Len(queues))
                       ELSE <<>>
  /\ UNCHANGED <<numDevices, selVars, builder_families, graphics_index,
                 present_index, requested>>

Next ==
  \/ CreateInstance
  \/ CreateSurface
  \/ FindNext
  \/ FindSkip
  \/ FindNone
  \/ ScanQueueFamilies
  \/ CreateDevice
  \/ TakeQueues

Spec == Init /\ [][Next]_vars

\* main() is one sequential thread: whenever a step is possible it is taken.
LiveSpec == Spec /\ WF_vars(Next)

\* ------------------------------------------- what the claims talk about
HasGraphics(fams) == \E i \in 1..Len(fams) : fams[i].graphics

HasPresent(fams) == \E i \in 1..Len(fams) : fams[i].present = "yes"

\* The suitability predicates of the selector's contract.
Suitable(d) ==
  /\ d.ext
  /\ d.caps.status = "ok"
  /\ d.caps.formats >= 1
  /\ d.caps.modes >= 1
  /\ HasGraphics(d.families)
  /\ HasPresent(d.families)

\* Families 1..k hold a graphics family and a family that can present.
BothSeenBy(fams, k) ==
  /\ \E i \in 1..k : fams[i].graphics
  /\ \E i \in 1..k : fams[i].present = "yes"

Least(S) == CHOOSE x \in S : \A y \in S : x <= y

Greatest(S) == CHOOSE x \in S : \A y \in S : x >= y

\* Number of families up to the first one by which both kinds have been seen.
StopPoint(fams) ==
  LET ks == {k \in 1..Len(fams) : BothSeenBy(fams, k)} IN
  IF ks = {} THEN Len(fams) ELSE Least(ks)

\* Number of families up to the first whose query fails or by which both
\* kinds have been seen.
QueriedPrefix(fams) ==
  LET ks == {k \in 1..Len(fams) : fams[k].present = "err" \/ BothSeenBy(fams, k)} IN
  IF ks = {} THEN Len(fams) ELSE Least(ks)

\* Every query the selector makes on d succeeds.
QueriesSucceed(d) ==
  /\ d.caps.status = "ok"
  /\ \A i \in 1..StopPoint(d.families) : d.families[i].present # "err"

NoFamilyError(fams) == \A i \in 1..Len(fams) : fams[i].present # "err"

Selected == physical_device # 0

PastSelection == pc \in {"scan", "create", "queues", "done"}

IndicesResolved == pc \in {"create", "queues", "done"}

\* The latest closure call ran to its return.
ClosureReturned == pc = "rejected" \/ Selected

\* ---------------------------------------------------------------- claims

\* C1: the selector returns a device only if that device supports the
\* swapchain extension, reports at least one format and one present mode, and
\* has a graphics family and a family that can present; the program goes past
\* selection only with such a device; a device that lacks one of these is
\* rejected when its queries succeed; and when the search ends with no device
\* returned and no failed query, main fails with "failed to get suitable
\* device" and nothing of the logical device has been computed.
C1_SelectedIsSuitable ==
  /\ Selected => Suitable(cur) /\ physical_device = devIdx
  /\ PastSelection => Selected
  /\ (cur # NoDevice /\ QueriesSucceed(cur) /\ ~Suitable(cur))
     => pc = "rejected" /\ ~Selected
  /\ error = MsgNoDevice => pc = "aborted" /\ ~Selected /\ devIdx = numDevices
  /\ (/\ pc = "aborted"
      /\ error \notin {MsgInstance, MsgSurface}
      /\ ~Selected
      /\ cur = NoDevice \/ QueriesSucceed(cur))
     => error = MsgNoDevice /\ ~Selected /\ bldVars = <<<<>>, -1, -1, <<>>, <<>>, NoQueue, NoQueue>>

\* C1 witness: the only candidate has the extension, a format and both kinds
\* of family but reports 0 present modes, and the closure has rejected it.
C1_Witness ==
  /\ pc = "rejected"
  /\ ~Selected
  /\ numDevices = 1
  /\ devIdx = 1
  /\ cur.ext
  /\ cur.caps.status = "ok"
  /\ cur.caps.formats = 1
  /\ cur.caps.modes = 0
  /\ HasGraphics(cur.families)
  /\ HasPresent(cur.families)

\* C2: when the queries succeed, the first suitable device in enumeration
\* order is the one returned: a device the search has moved past is not
\* suitable, a suitable device ends the search at its own position, and the
\* search never continues after it.
C2_FirstMatch ==
  /\ pc = "rejected" => ~Suitable(cur)
  /\ (Suitable(cur) /\ QueriesSucceed(cur))
     => Selected /\ physical_device = devIdx /\ pc \notin {"select", "rejected"}
  /\ Selected => physical_device = devIdx /\ devIdx <= numDevices

\* C2 witness: the second device of the list, with one family that does both
\* graphics and presentation, one format and one present mode, was returned
\* after the first was passed over; one family was requested and the two
\* queue handles are the same queue.
C2_Witness ==
  /\ pc = "done"
  /\ physical_device = 2
  /\ cur.ext
  /\ cur.caps.formats = 1
  /\ cur.caps.modes = 1
  /\ Len(cur.families) = 1
  /\ cur.families[1].graphics
  /\ cur.families[1].present = "yes"
  /\ Len(requested) = 1
  /\ graphics_queue = present_queue

\* The selected device has exactly two families, one graphics-only and one
\* present-only.
SplitRoles(d) ==
  /\ Len(d.families) = 2
  /\ \E g, p \in 1..2 :
       /\ g # p
       /\ d.families[g].graphics /\ d.families[g].present = "no"
       /\ ~d.families[p].graphics /\ d.families[p].present = "yes"

\* The builder's presentation queries got the answers the selector's got.
AnswersRepeated == builder_families = cur.families

\* C3: for a device with a graphics-only and a present-only family, two
\* families are requested, the graphics queue belongs to the graphics family
\* and the present queue to the family that can present.  The device answers
\* the builder as it answered the selector.
C3_HandlesMatchRoles ==
  (pc = "done" /\ SplitRoles(cur) /\ AnswersRepeated)
  => /\ Len(requested) = 2
     /\ AsUsize(graphics_index) < Len(cur.families)
     /\ AsUsize(present_index) < Len(cur.families)
     /\ graphics_queue.family = AsUsize(graphics_index)
     /\ cur.families[graphics_queue.family + 1].graphics
     /\ present_queue.family = AsUsize(present_index)
     /\ cur.families[present_queue.family + 1].present = "yes"

\* 0-based index of the first family that supports graphics.
FirstGraphics(fams) == Least({i \in 1..Len(fams) : fams[i].graphics}) - 1

\* 0-based index of the first family that can present.
FirstPresent(fams) == Least({i \in 1..Len(fams) : fams[i].present = "yes"}) - 1

\* C4 as stated, over the families as the builder's scan meets them: the
\* builder's scan ends with graphics_index the lowest family
\* index that supports graphics and present_index the lowest that can present.
C4_FirstIndices ==
  (IndicesResolved /\ HasGraphics(builder_families) /\ HasPresent(builder_families))
  => /\ graphics_index = FirstGraphics(builder_families)
     /\ present_index = FirstPresent(builder_families)

\* C4 amended: the scan stops at the first family by which both kinds have been
\* seen; graphics_index is the highest family index up to there that supports
\* graphics and present_index the highest up to there that can present.
C4_LastUpToStop ==
  (IndicesResolved /\ HasGraphics(builder_families) /\ HasPresent(builder_families))
  => LET stop == StopPoint(builder_families) IN
     /\ graphics_index
          = Greatest({i \in 1..stop : builder_families[i].graphics}) - 1
     /\ present_index
          = Greatest({i \in 1..stop : builder_families[i].present = "yes"}) - 1

\* C4 witness: the scan has ended on an index that is not the first of its kind.
C4_Witness ==
  /\ IndicesResolved
  /\ HasGraphics(builder_families)
  /\ HasPresent(builder_families)
  /\ \/ graphics_index # FirstGraphics(builder_families)
     \/ present_index # FirstPresent(builder_families)

\* C5: the number of families requested is the number of distinct values among
\* the graphics index and the present index; when the two coincide one family
\* is requested, one queue is created and the present queue is the graphics
\* queue itself.
C5_DedupAndAlias ==
  /\ pc \in {"queues", "done"}
     => /\ Len(requested) = Cardinality({graphics_index, present_index})
        /\ \A i, j \in 1..Len(requested) : i # j => requested[i] # requested[j]
        /\ graphics_index = present_index
           => requested = <<AsUsize(graphics_index)>>
  /\ (pc = "done" /\ graphics_index = present_index)
     => /\ present_queue = graphics_queue
        /\ graphics_queue = [family |-> AsUsize(graphics_index), id |-> 0]

\* C5 witness: a device whose single family does both, built to the end.
C5_Witness ==
  /\ pc = "done"
  /\ Len(cur.families) = 1
  /\ graphics_index = 0
  /\ present_index = 0
  /\ Len(requested) = 1
  /\ present_queue = graphics_queue

StageSucc ==
  {<<"instance", "surface">>, <<"surface", "select">>, <<"select", "rejected">>,
   <<"rejected", "select">>, <<"select", "scan">>, <<"scan", "create">>, <<"create", "queues">>,
   <<"queues", "done">>}
  \cup {<<st, "aborted">> :
          st \in {"instance", "surface", "select", "scan", "create", "queues"}}

StageErrors(st) ==
  CASE st = "instance" -> {MsgInstance}
    [] st = "surface" -> {MsgSurface}
    [] st = "select" -> {MsgCapabilities, MsgIsSupported, MsgNoDevice}
    [] st = "scan" -> {MsgIsSupported}
    [] st = "create" -> {MsgNthNone, MsgLogicalDevice}
    [] st = "queues" -> {MsgNthNone}
    [] OTHER -> {}

\* C6: every step moves main to the next stage in the order instance, surface,
\* selection, logical device, or aborts it with the message of the stage that
\* failed; a failure always aborts, nothing happens after an abort or after the
\* end, the search visits each device once, and with an empty device list
\* selection fails with "failed to get suitable device" before anything of the
\* logical device is computed.
C6_StageOrder ==
  [][/\ <<pc, pc'>> \in StageSucc
     /\ pc' = "aborted" => error' \in StageErrors(pc)
     /\ pc' # "aborted" => error' = ""
     /\ (pc = "select" /\ pc' = "rejected") => devIdx' = devIdx + 1
     /\ (pc = "rejected" /\ pc' = "select") => devIdx' = devIdx
     /\ (pc = "select" /\ numDevices = 0)
        => /\ pc' = "aborted"
           /\ error' = MsgNoDevice
           /\ bldVars' = <<<<>>, -1, -1, <<>>, <<>>, NoQueue, NoQueue>>]_vars

\* C6 witness: the device list was empty and selection has failed.
C6_Witness ==
  /\ pc = "aborted"
  /\ error = MsgNoDevice
  /\ numDevices = 0
  /\ devIdx = 0
  /\ requested = <<>>

Terminated == pc \in {"done", "aborted"}

\* C7: every run of main ends, either done, right after the logical device and
\* the two queue handles exist, or aborted by a failure with its message.
C7_Terminates ==
  /\ <>Terminated
  /\ [](pc = "done" => /\ error = ""
                       /\ Len(requested) >= 1
                       /\ graphics_queue # NoQueue
                       /\ present_queue # NoQueue)
  /\ [](pc = "aborted" => error # "")

\* C7 witness: main has ended normally with two distinct queues.
C7_Witness ==
  /\ pc = "done"
  /\ error = ""
  /\ graphics_queue # NoQueue
  /\ present_queue # NoQueue
  /\ graphics_queue # present_queue

\* C8: when the closure returns, it has queried the families up to the first
\* one by which both kinds were seen and no family after it; its flags say
\* whether a graphics family and a presenting family exist among the families
\* it scanned; and when a scan of all families would not fail, the flags and
\* the verdict are those of that full scan.
C8_ShortCircuit ==
  ClosureReturned
  => /\ famQueried = StopPoint(cur.families)
     /\ supports_graphics = (\E i \in 1..famQueried : cur.families[i].graphics)
     /\ present_family
          = (\E i \in 1..famQueried : cur.families[i].present = "yes")
     /\ NoFamilyError(cur.families)
        => /\ supports_graphics = HasGraphics(cur.families)
           /\ present_family = HasPresent(cur.families)
           /\ Selected = Suitable(cur)

\* C8 witness: the closure returned after the first family, leaving a second
\* family unqueried whose query would have failed.
C8_Witness ==
  /\ ClosureReturned
  /\ famQueried = 1
  /\ Len(cur.families) = 2
  /\ cur.families[2].present = "err"
  /\ supports_graphics
  /\ present_family

\* C9: once the selector has returned a device and the builder has scanned it,
\* graphics_index and present_index are valid indices of families of that
\* device, the first one supporting graphics and the second one able to
\* present as the builder's scan found them; the conversion to usize changes
\* neither, and the family lookup nth(i).unwrap() does not fail.
C9_IndicesValid ==
  /\ (Selected /\ IndicesResolved)
     => /\ graphics_index >= 0 /\ graphics_index < Len(cur.families)
        /\ present_index >= 0 /\ present_index < Len(cur.families)
        /\ builder_families[graphics_index + 1].graphics
        /\ builder_families[present_index + 1].present = "yes"
        /\ AsUsize(graphics_index) = graphics_index
        /\ AsUsize(present_index) = present_index
  /\ Selected => error # MsgNthNone

\* C10: the capability query is made on every device the search visits,
\* whether or not it has the extension, and on no device after the one
\* returned; a failed capability query, or a failed presentation query among
\* the families scanned, aborts main at that device whatever devices follow.
C10_QueriesOnEveryDevice ==
  /\ capsQueried = devIdx
  /\ Selected => capsQueried = physical_device
  /\ cur.caps.status = "err"
     => pc = "aborted" /\ error = MsgCapabilities /\ ~Selected
  /\ cur.caps.status = "ok"
     => /\ famQueried = QueriedPrefix(cur.families)
        /\ (\E i \in 1..famQueried : cur.families[i].present = "err")
           => pc = "aborted" /\ error = MsgIsSupported /\ ~Selected

\* C10 witness: the first of two devices lacks the extension and its
\* capability query failed; main has aborted without visiting the second.
C10_Witness ==
  /\ pc = "aborted"
  /\ error = MsgCapabilities
  /\ ~cur.ext
  /\ capsQueried = 1
  /\ devIdx = 1
  /\ numDevices >= 2

====
